---- MODULE Spec2Model ----
(***************************************************************************)
(* Model of src/Garant_bot.py: a Telegram escrow bot.                      *)
(*                                                                         *)
(*   - the SQLite store (tables users and deals) and its utilities;        *)
(*   - the in-memory dialog state `states` and its payload dicts;          *)
(*   - callback_router and message_router, run by the worker threads of    *)
(*     TeleBot(threaded=True).  Every store utility takes _sql_lock for    *)
(*     the length of one statement, so one utility call is one atomic      *)
(*     step, and a handler that reads with get_deal / get_state and then   *)
(*     writes is two steps that other handlers can run between.            *)
(***************************************************************************)
EXTENDS Integers, Sequences, FiniteSets, TLC

(* ------------------------------ bounds -------------------------------- *)
\* Telegram user ids are positive integers.
MaxUsers == 3
\* Users that drive the dialog (wallet, deal creation) in Spec.
MaxSellers == 1
\* Distinct values hex(abs(hash(...)))[2:14] takes in a run.
MaxDeals == 1
\* Distinct readings of int(time.time()) in a run.
MaxTime == 1
\* Distinct readings of int(time.time()) in SpecDeals.
MaxDealTime == 2
\* Distinct deal ids create_deal generates in SpecStore.
MaxStoreDeals == 2
\* Users that hold a dialog session at the same time in SpecSessions.
MaxActors == 2
\* Worker threads that run handlers at the same time.
NumThreads == 2

Users == 1..MaxUsers
Sellers == 1..MaxSellers
DealIds == 1..MaxDeals
Workers == 1..NumThreads
Actors == 1..MaxActors
StoreIds == 1..MaxStoreDeals
Times == 1..MaxTime
DealTimes == 1..MaxDealTime

(* ------------------------------- text --------------------------------- *)
\* A str is a sequence of one-character strings.
Digits == {"0", "1", "2", "3", "4", "5", "6", "7", "8", "9"}

DigitVal(c) ==
    CASE c = "0" -> 0 [] c = "1" -> 1 [] c = "2" -> 2 [] c = "3" -> 3
      [] c = "4" -> 4 [] c = "5" -> 5 [] c = "6" -> 6 [] c = "7" -> 7
      [] c = "8" -> 8 [] c = "9" -> 9

\* str.strip(): leading and trailing blanks removed.
RECURSIVE LStrip(_)
LStrip(s) == IF s # <<>> /\ Head(s) = " " THEN LStrip(Tail(s)) ELSE s

RECURSIVE RStrip(_)
RStrip(s) ==
    IF s # <<>> /\ s[Len(s)] = " " THEN RStrip(SubSeq(s, 1, Len(s) - 1)) ELSE s

Strip(s) == LStrip(RStrip(s))

\* txt.replace(",", ".")
ReplaceComma(s) == [i \in 1..Len(s) |-> IF s[i] = "," THEN "." ELSE s[i]]

RECURSIVE DigitsValue(_)
DigitsValue(s) ==
    IF s = <<>> THEN 0
    ELSE 10 * DigitsValue(SubSeq(s, 1, Len(s) - 1)) + DigitVal(s[Len(s)])

\* A finite float n / 10^k, written with the fewest fraction digits.
RECURSIVE Normalise(_, _)
Normalise(n, k) ==
    IF k > 0 /\ n % 10 = 0 THEN Normalise(n \div 10, k - 1) ELSE [n |-> n, k |-> k]

NaN == [kind |-> "nan", neg |-> FALSE, n |-> 0, k |-> 0]
Inf(neg) == [kind |-> "inf", neg |-> neg, n |-> 0, k |-> 0]
Num(neg, n, k) ==
    [kind |-> "num", neg |-> neg, n |-> Normalise(n, k).n, k |-> Normalise(n, k).k]
ValueError == [kind |-> "ValueError", neg |-> FALSE, n |-> 0, k |-> 0]

\* float(s) on the decimal literals, "inf" and "nan" (lower case, no
\* exponent, no underscores: the input sets hold no such text).
ParseUnsigned(neg, body) ==
    LET dots == {i \in 1..Len(body) : body[i] = "."}
        p == IF dots = {} THEN Len(body) + 1 ELSE CHOOSE i \in dots : TRUE
        int == SubSeq(body, 1, p - 1)
        frac == SubSeq(body, p + 1, Len(body))
        alldigits == \A i \in 1..Len(body) : i \in dots \/ body[i] \in Digits
    IN  IF body = <<"n", "a", "n">> THEN NaN
        ELSE IF body = <<"i", "n", "f">> THEN Inf(neg)
        ELSE IF Cardinality(dots) > 1 \/ ~alldigits \/ Len(int) + Len(frac) = 0
             THEN ValueError
        ELSE Num(neg, DigitsValue(int \o frac), Len(frac))

ParseFloat(s) ==
    LET t == Strip(s)
    IN  IF t = <<>> THEN ValueError
        ELSE IF Head(t) = "-" THEN ParseUnsigned(TRUE, Tail(t))
        ELSE IF Head(t) = "+" THEN ParseUnsigned(FALSE, Tail(t))
        ELSE ParseUnsigned(FALSE, t)

\* amount <= 0 on floats: False for nan.
LeqZero(a) ==
    CASE a.kind = "nan" -> FALSE
      [] a.kind = "inf" -> a.neg
      [] OTHER -> a.neg \/ a.n = 0

\* amount > 0 on floats: False for nan.
GtZero(a) ==
    CASE a.kind = "nan" -> FALSE
      [] a.kind = "inf" -> ~a.neg
      [] OTHER -> ~a.neg /\ a.n > 0

\* bool(x) of a float: only 0.0 and -0.0 are falsy.
Truthy(a) == ~(a.kind = "num" /\ a.n = 0)

Zero == Num(FALSE, 0, 0)

\* ParseAmount without `if amount <= 0: raise ValueError`.
ParseAmountAnySign(txt) == ParseFloat(ReplaceComma(txt))

\* message_router, enter_amount: the parsed amount, or ValueError when the
\* text is no float or the float is <= 0.
ParseAmount(txt) ==
    LET amount == ParseFloat(ReplaceComma(txt))
    IN  IF amount.kind = "ValueError" THEN ValueError
        ELSE IF LeqZero(amount) THEN ValueError
        ELSE amount

(* ------------------------------- state -------------------------------- *)
VARIABLES
    users,      \* table users: user_id -> [row, wallet]
    deals,      \* table deals: deal_id -> row, for the ids inserted so far
    states,     \* the dict `states`: user_id -> [step, ref]
    heap,       \* the payload dicts `states` and the handlers refer to
    workers,    \* what each worker thread is in the middle of
    sent        \* the messages bot.send_message sent in the last step

vars == <<users, deals, states, heap, workers, sent>>

\* SQL NULL / Python None in the integer column buyer_id.
None == 0
\* A NULL wallet is the empty text: the code only tests `not user["wallet"]`
\* and set_user_wallet is only called with a non-empty text.
NoWallet == <<>>

\* One dict object per reference; reference 0 stands for a fresh empty dict
\* that nothing reads or writes (steps wallet_wait and choose_category).
Refs == 1..(MaxUsers + NumThreads)
NoRef == None
EmptyDict == <<>>

Put(dict, key, value) ==
    [x \in (DOMAIN dict) \cup {key} |-> IF x = key THEN value ELSE dict[x]]

Idle == [op |-> "idle"]

\* bot.send_message(to, text): the text is one of the handler's fixed replies.
Msg(to, text) == [to |-> to, text |-> text]

(* ------------------------------- store -------------------------------- *)
\* INSERT OR IGNORE INTO users ...; the username is not modelled.
ensure_user_row(tbl, user_id) ==
    IF tbl[user_id].row THEN tbl
    ELSE [tbl EXCEPT ![user_id] = [row |-> TRUE, wallet |-> NoWallet]]

\* UPDATE users SET wallet=? WHERE user_id=?: no row, no change.
set_user_wallet(tbl, user_id, wallet) ==
    IF tbl[user_id].row THEN [tbl EXCEPT ![user_id].wallet = wallet] ELSE tbl

\* SELECT * FROM users WHERE user_id=?: the row, row = FALSE for None.
get_user(user_id) == users[user_id]

\* `not user or not user["wallet"]`
HasWallet(user) == user.row /\ user.wallet # NoWallet

NoRow == [found |-> FALSE]

\* SELECT * FROM deals WHERE deal_id=?
get_deal(deal_id) == IF deal_id \in DOMAIN deals THEN deals[deal_id] ELSE NoRow

\* NewDeal with item_info and description taking each other's column.
NewDealSwapped(deal_id, seller_id, amount, category, item_info, description, now) ==
    [found |-> TRUE, deal_id |-> deal_id, seller_id |-> seller_id,
     buyer_id |-> None, category |-> category, item_info |-> description,
     description |-> item_info, amount |-> amount, status |-> "created",
     created_at |-> now, updated_at |-> now]
\* The row create_deal inserts; now is int(time.time()).
NewDeal(deal_id, seller_id, amount, category, item_info, description, now) ==
    [found |-> TRUE, deal_id |-> deal_id, seller_id |-> seller_id,
     buyer_id |-> None, category |-> category, item_info |-> item_info,
     description |-> description, amount |-> amount, status |-> "created",
     created_at |-> now, updated_at |-> now]

\* InsertFails without the PRIMARY KEY: INSERT OR REPLACE.
InsertFailsNull(tbl, deal_id, amount) == amount.kind = "nan"
\* The INSERT of create_deal raises sqlite3.IntegrityError when deal_id is
\* already a key (PRIMARY KEY) or when amount binds as NULL (sqlite3 binds a
\* NaN as NULL; amount is REAL NOT NULL).
InsertFails(tbl, deal_id, amount) == deal_id \in DOMAIN tbl \/ amount.kind = "nan"

create_deal(tbl, deal_id, seller_id, amount, category, item_info, description, now) ==
    IF InsertFails(tbl, deal_id, amount) THEN tbl
    ELSE [d \in (DOMAIN tbl) \cup {deal_id} |->
            IF d = deal_id
            THEN NewDeal(deal_id, seller_id, amount, category, item_info, description, now)
            ELSE tbl[d]]

\* update_deal that sets created_at as well as updated_at.
update_dealTouch(tbl, deal_id, fields, now) ==
    IF deal_id \in DOMAIN tbl
    THEN [tbl EXCEPT ![deal_id] =
            [c \in DOMAIN tbl[deal_id] |->
                IF c \in DOMAIN fields THEN fields[c]
                ELSE IF c \in {"created_at", "updated_at"} THEN now
                ELSE tbl[deal_id][c]]]
    ELSE tbl

\* UPDATE deals SET <fields>, updated_at=? WHERE deal_id=?: fields is a dict
\* of columns, now is int(time.time()).
update_deal(tbl, deal_id, fields, now) ==
    IF deal_id \in DOMAIN tbl
    THEN [tbl EXCEPT ![deal_id] =
            [c \in DOMAIN tbl[deal_id] |->
                IF c \in DOMAIN fields THEN fields[c]
                ELSE IF c = "updated_at" THEN now
                ELSE tbl[deal_id][c]]]
    ELSE tbl

(* --------------------------- dialog state ----------------------------- *)
NoState == [step |-> "None", ref |-> NoRef]

set_state(tbl, user_id, step, ref) ==
    [tbl EXCEPT ![user_id] = [step |-> step, ref |-> ref]]

get_state(user_id) == states[user_id]

\* clear_state that deletes nothing.
clear_stateKeep(tbl, user_id) == tbl
clear_state(tbl, user_id) == [tbl EXCEPT ![user_id] = NoState]

\* The references held by `states` and by the running message handlers, in
\* a fixed order of the holders.
Held(st, wk) ==
    [i \in 1..(MaxUsers + NumThreads) |->
        IF i <= MaxUsers THEN st[i].ref
        ELSE IF wk[i - MaxUsers].op = "message" THEN wk[i - MaxUsers].ref
        ELSE NoRef]

\* A dict object is known by who refers to it, not by a number: a reference
\* is renamed to its rank among the references held, and a dict nothing
\* refers to any more is garbage.
Rank(h, r) ==
    LET first == CHOOSE i \in DOMAIN h : h[i] = r /\ \A j \in 1..(i - 1) : h[j] # r
    IN  Cardinality({h[j] : j \in 1..first} \ {NoRef})

\* The new name of every reference held (NoRef for one that is not).
Rename(h) ==
    [r \in Refs \cup {NoRef} |->
        IF r # NoRef /\ \E i \in DOMAIN h : h[i] = r THEN Rank(h, r) ELSE NoRef]

\* The dialog state, the handlers and the dicts after a step that leaves
\* them as st, wk and hp.
Objects(st, wk, hp) ==
    LET ren == Rename(Held(st, wk))
    IN  /\ states' = [u \in Users |-> [st[u] EXCEPT !.ref = ren[@]]]
        /\ workers' = [w \in Workers |->
                IF wk[w].op = "message" THEN [wk[w] EXCEPT !.ref = ren[@]] ELSE wk[w]]
        /\ heap' = [r \in Refs |->
                IF \E x \in Refs : ren[x] = r
                THEN hp[CHOOSE x \in Refs : ren[x] = r] ELSE EmptyDict]

\* One dict object for every payload: always the first reference.
NewRefShared == CHOOSE r \in Refs : \A q \in Refs : r <= q

\* A new dict object: a reference nothing refers to.
NewRef ==
    CHOOSE r \in Refs : \A i \in DOMAIN Held(states, workers) : Held(states, workers)[i] # r

\* The thread pool hands a handler to a free worker thread; which one makes
\* no difference, so it is the first.
Free(w) == workers[w] = Idle /\ \A v \in 1..(w - 1) : workers[v] # Idle

\* A handler that is one step needs a free worker thread for that step.
Available == \E w \in Workers : workers[w] = Idle

Init ==
    /\ users = [u \in Users |-> [row |-> FALSE, wallet |-> NoWallet]]
    /\ deals = <<>>
    /\ states = [u \in Users |-> NoState]
    /\ heap = [r \in Refs |-> EmptyDict]
    /\ workers = [w \in Workers |-> Idle]
    /\ sent = {}

(* ----------------------- callback_router: dialog ---------------------- *)
\* data == "cancel"
Cancel(uid) ==
    /\ Available
    /\ Objects(clear_state(states, uid), workers, heap)
    /\ sent' = {Msg(uid, "cancel_menu")}
    /\ UNCHANGED <<users, deals>>

\* data == "wallet"
Wallet(uid) ==
    /\ Available
    /\ Objects(set_state(states, uid, "wallet_wait", NoRef), workers, heap)
    /\ sent' = {Msg(uid, "send_wallet")}
    /\ UNCHANGED <<users, deals>>

\* data == "create_deal"
CreateDealEntry(uid) ==
    /\ Available
    /\ IF ~HasWallet(get_user(uid))
       THEN /\ sent' = {Msg(uid, "wallet_first")}
            /\ UNCHANGED <<states, heap, workers>>
       ELSE /\ Objects(set_state(states, uid, "choose_category", NoRef), workers, heap)
            /\ sent' = {Msg(uid, "choose_category")}
    /\ UNCHANGED <<users, deals>>

\* data.startswith("cat:")
Category(uid, cat) ==
    /\ Available
    /\ Objects(set_state(states, uid, "enter_item", NewRef), workers,
               [heap EXCEPT ![NewRef] = Put(EmptyDict, "category", cat)])
    /\ sent' = {Msg(uid, "send_item")}
    /\ UNCHANGED <<users, deals>>

(* ------------------ callback_router: deal transitions ----------------- *)
\* Each check gives the reply of the branch that returns, or "ok" when the
\* handler goes on to update_deal.

\* JoinCheck without the buyer_id test.
JoinCheckNoBuyer(row, uid) ==
    IF ~row.found THEN "deal_not_found"
    ELSE IF row.seller_id = uid THEN "you_are_seller"
    ELSE "ok"

\* JoinCheck with the buyer_id test before the seller_id test.
JoinCheckBuyerFirst(row, uid) ==
    IF ~row.found THEN "deal_not_found"
    ELSE IF row.buyer_id # None THEN "deal_taken"
    ELSE IF row.seller_id = uid THEN "you_are_seller"
    ELSE "ok"

JoinCheck(row, uid) ==
    IF ~row.found THEN "deal_not_found"
    ELSE IF row.seller_id = uid THEN "you_are_seller"
    ELSE IF row.buyer_id # None THEN "deal_taken"
    ELSE "ok"

PaidCheck(row, uid) ==
    IF ~row.found THEN "deal_not_found"
    ELSE IF row.buyer_id # uid THEN "only_buyer_pays"
    ELSE IF row.status \notin {"waiting_payment", "created"} THEN "cannot_pay_now"
    ELSE "ok"

\* LeaveCheck that lets a buyer leave only before the payment.
LeaveCheckUnpaid(row, uid) ==
    IF ~row.found THEN "deal_not_found"
    ELSE IF row.buyer_id # uid THEN "not_buyer"
    ELSE IF row.status # "waiting_payment" THEN "already_closed"
    ELSE "ok"
LeaveCheck(row, uid) ==
    IF ~row.found THEN "deal_not_found"
    ELSE IF row.buyer_id # uid THEN "not_buyer"
    ELSE IF row.status \in {"finished", "canceled"} THEN "already_closed"
    ELSE "ok"

FinishCheck(row, uid) ==
    IF ~row.found THEN "deal_not_found"
    ELSE IF row.seller_id # uid THEN "only_seller_finishes"
    ELSE IF row.status # "paid" THEN "finish_after_paid"
    ELSE "ok"

\* CancelCheck without the status test.
CancelCheckNoStatus(row, uid) ==
    IF ~row.found THEN "deal_not_found"
    ELSE IF uid \notin {row.seller_id, IF row.buyer_id # None THEN row.buyer_id ELSE -1}
         THEN "not_participant"
    ELSE "ok"
\* uid not in (row["seller_id"], row["buyer_id"] or -1)
CancelCheck(row, uid) ==
    IF ~row.found THEN "deal_not_found"
    ELSE IF uid \notin {row.seller_id, IF row.buyer_id # None THEN row.buyer_id ELSE -1}
         THEN "not_participant"
    ELSE IF row.status \in {"finished", "canceled"} THEN "already_finished_or_canceled"
    ELSE "ok"

\* The keyword arguments of each handler's update_deal call.
JoinFields(uid) == [buyer_id |-> uid, status |-> "waiting_payment"]
\* PaidFields with a status outside the five.
PaidFieldsPayed == [status |-> "payed"]
PaidFields == [status |-> "paid"]
\* LeaveFields without the status.
LeaveFieldsNoStatus == [buyer_id |-> None]
LeaveFields == [buyer_id |-> None, status |-> "created"]
FinishFields == [status |-> "finished"]
CancelFields == [status |-> "canceled"]

\* The messages each handler sends after its update_deal; row is the row
\* the handler read before the update.
JoinNotes(row, uid) ==
    {Msg(uid, IF HasWallet(get_user(row.seller_id)) THEN "pay_to_wallet"
              ELSE "seller_has_no_wallet"),
     Msg(row.seller_id, "buyer_joined")}

PaidNotes(row, uid) == {Msg(uid, "you_marked_paid"), Msg(row.seller_id, "buyer_paid")}

LeaveNotes(row, uid) == {Msg(uid, "you_left"), Msg(row.seller_id, "buyer_left")}

FinishNotes(row, uid) ==
    {Msg(uid, "deal_finished")} \cup
    (IF row.buyer_id # None THEN {Msg(row.buyer_id, "finished_by_seller")} ELSE {})

CancelNotes(row, uid) ==
    {Msg(uid, "deal_canceled")} \cup
    (IF row.seller_id # uid THEN {Msg(row.seller_id, "deal_canceled")} ELSE {}) \cup
    (IF row.buyer_id # None /\ row.buyer_id # uid
     THEN {Msg(row.buyer_id, "deal_canceled")} ELSE {})

\* The columns of the row a handler read that it still uses after its
\* update_deal, for the messages.
Kept(row) == [seller_id |-> row.seller_id, buyer_id |-> row.buyer_id]

\* A handler up to its update_deal: get_deal, then the checks.  A failed
\* check replies and returns; otherwise the thread holds the row it read.
Read(w, op, uid, deal_id, verdict) ==
    /\ IF verdict = "ok"
       THEN /\ workers' = [workers EXCEPT ![w] =
                    [op |-> op, uid |-> uid, deal_id |-> deal_id,
                     row |-> Kept(get_deal(deal_id))]]
            /\ sent' = {}
       ELSE /\ sent' = {Msg(uid, verdict)}
            /\ UNCHANGED workers
    /\ UNCHANGED <<users, deals, states, heap>>

\* The rest of the handler: update_deal and the messages.
Write(w, op, fields, notes, now) ==
    /\ workers[w].op = op
    /\ deals' = update_deal(deals, workers[w].deal_id, fields, now)
    /\ sent' = notes
    /\ workers' = [workers EXCEPT ![w] = Idle]
    /\ UNCHANGED <<users, states, heap>>

JoinRead(w, uid, deal_id) ==
    /\ Free(w)
    /\ Read(w, "join", uid, deal_id, JoinCheck(get_deal(deal_id), uid))
JoinWrite(w, now) ==
    /\ workers[w].op = "join"
    /\ Write(w, "join", JoinFields(workers[w].uid), JoinNotes(workers[w].row, workers[w].uid), now)

PaidRead(w, uid, deal_id) ==
    /\ Free(w)
    /\ Read(w, "paid", uid, deal_id, PaidCheck(get_deal(deal_id), uid))
PaidWrite(w, now) ==
    /\ workers[w].op = "paid"
    /\ Write(w, "paid", PaidFields, PaidNotes(workers[w].row, workers[w].uid), now)

LeaveRead(w, uid, deal_id) ==
    /\ Free(w)
    /\ Read(w, "leave", uid, deal_id, LeaveCheck(get_deal(deal_id), uid))
LeaveWrite(w, now) ==
    /\ workers[w].op = "leave"
    /\ Write(w, "leave", LeaveFields, LeaveNotes(workers[w].row, workers[w].uid), now)

FinishRead(w, uid, deal_id) ==
    /\ Free(w)
    /\ Read(w, "finish", uid, deal_id, FinishCheck(get_deal(deal_id), uid))
FinishWrite(w, now) ==
    /\ workers[w].op = "finish"
    /\ Write(w, "finish", FinishFields, FinishNotes(workers[w].row, workers[w].uid), now)

CancelDealRead(w, uid, deal_id) ==
    /\ Free(w)
    /\ Read(w, "canceldeal", uid, deal_id, CancelCheck(get_deal(deal_id), uid))
CancelDealWrite(w, now) ==
    /\ workers[w].op = "canceldeal"
    /\ Write(w, "canceldeal", CancelFields, CancelNotes(workers[w].row, workers[w].uid), now)

(* --------------------------- message_router --------------------------- *)
\* A message: its content_type, its text ("" for msg.text None) and, for a
\* message forwarded from a channel, the channel's "id:title" (else "").
TextMsg(text) == [ctype |-> "text", text |-> text, forward |-> <<>>]
PhotoMsg == [ctype |-> "photo", text |-> <<>>, forward |-> <<>>]
ForwardMsg(text, chat) == [ctype |-> "text", text |-> text, forward |-> chat]

\* f"forwarded_from_channel:{id}:{title}", the prefix shortened to "fwd:".
ItemInfo(msg) ==
    IF msg.forward # <<>> THEN <<"f", "w", "d", ":">> \o msg.forward
    ELSE Strip(msg.text)

\* The reply of a branch of message_router that returns without touching
\* the dialog state or the store again, or "go" when the handler goes on.
MessageVerdict(step, msg) ==
    IF step = "wallet_wait" /\ msg.ctype = "text"
    THEN (IF Strip(msg.text) = <<>> THEN "wallet_error" ELSE "go")
    ELSE IF step = "enter_item" THEN "go"
    ELSE IF step = "enter_amount"
    THEN (IF ParseAmount(Strip(msg.text)).kind = "ValueError" THEN "bad_amount" ELSE "go")
    ELSE IF step = "enter_description" THEN "go"
    ELSE "choose_action"

\* message_router up to its first write: ensure_user_row, get_state, and
\* the branches that only reply.
MessageRead(w, uid, msg) ==
    /\ Free(w)
    /\ users' = ensure_user_row(users, uid)
    /\ IF MessageVerdict(get_state(uid).step, msg) = "go"
       THEN /\ Objects(states,
                       [workers EXCEPT ![w] =
                            [op |-> "message", uid |-> uid, msg |-> msg,
                             step |-> get_state(uid).step, ref |-> get_state(uid).ref]],
                       heap)
            /\ sent' = {}
       ELSE /\ sent' = {Msg(uid, MessageVerdict(get_state(uid).step, msg))}
            /\ UNCHANGED <<states, heap, workers>>
    /\ UNCHANGED deals

\* step == "wallet_wait": set_user_wallet, clear_state.
WalletInput(w) ==
    /\ workers[w].op = "message" /\ workers[w].step = "wallet_wait"
    /\ users' = set_user_wallet(users, workers[w].uid, Strip(workers[w].msg.text))
    /\ Objects(clear_state(states, workers[w].uid), [workers EXCEPT ![w] = Idle], heap)
    /\ sent' = {Msg(workers[w].uid, "wallet_saved")}
    /\ UNCHANGED deals

\* step == "enter_item": payload["item_info"] = item_info; set_state.
ItemInput(w) ==
    /\ workers[w].op = "message" /\ workers[w].step = "enter_item"
    /\ Objects(set_state(states, workers[w].uid, "enter_amount", workers[w].ref),
               [workers EXCEPT ![w] = Idle],
               [heap EXCEPT ![workers[w].ref] = Put(@, "item_info", ItemInfo(workers[w].msg))])
    /\ sent' = {Msg(workers[w].uid, "enter_amount")}
    /\ UNCHANGED <<users, deals>>

\* step == "enter_amount": payload["amount"] = amount; set_state.
AmountInput(w) ==
    /\ workers[w].op = "message" /\ workers[w].step = "enter_amount"
    /\ Objects(set_state(states, workers[w].uid, "enter_description", workers[w].ref),
               [workers EXCEPT ![w] = Idle],
               [heap EXCEPT ![workers[w].ref] =
                    Put(@, "amount", ParseAmount(Strip(workers[w].msg.text)))])
    /\ sent' = {Msg(workers[w].uid, "enter_description")}
    /\ UNCHANGED <<users, deals>>

\* payload.get(key) or default, for the text fields
GetText(payload, key, default) ==
    IF key \in DOMAIN payload /\ payload[key] # <<>> THEN payload[key] ELSE default

\* payload.get("amount") or 0.0
GetAmount(payload) ==
    IF "amount" \in DOMAIN payload /\ Truthy(payload["amount"]) THEN payload["amount"]
    ELSE Zero

Other == <<"o", "t", "h", "e", "r">>

\* step == "enter_description": create_deal, clear_state, the deal card.
\* deal_id is the value of hex(abs(hash(...)))[2:14]; an IntegrityError of
\* the INSERT ends the handler before clear_state.
DescriptionInput(w, deal_id, now) ==
    /\ workers[w].op = "message" /\ workers[w].step = "enter_description"
    /\ LET payload == heap[workers[w].ref]
           amount == GetAmount(payload)
       IN  IF InsertFails(deals, deal_id, amount)
           THEN /\ Objects(states, [workers EXCEPT ![w] = Idle], heap)
                /\ sent' = {}
                /\ UNCHANGED deals
           ELSE /\ deals' = create_deal(deals, deal_id, workers[w].uid, amount,
                                        GetText(payload, "category", Other),
                                        GetText(payload, "item_info", <<>>),
                                        Strip(workers[w].msg.text), now)
                /\ Objects(clear_state(states, workers[w].uid),
                           [workers EXCEPT ![w] = Idle], heap)
                /\ sent' = {Msg(workers[w].uid, "deal_created")}
    /\ UNCHANGED users

(* --------------------------- specifications --------------------------- *)
Nft == <<"n", "f", "t">>
Five == <<"5">>

\* Spec: the whole bot.  The seller's texts are all "5" (a wallet address,
\* an item, an amount and a description alike), with one category.
Categories == {Nft}
Messages == {TextMsg(Five)}

Next ==
    \/ \E uid \in Sellers : Cancel(uid)
    \/ \E uid \in Sellers : Wallet(uid)
    \/ \E uid \in Sellers : CreateDealEntry(uid)
    \/ \E uid \in Sellers, cat \in Categories : Category(uid, cat)
    \/ \E w \in Workers, uid \in Sellers, msg \in Messages : MessageRead(w, uid, msg)
    \/ \E w \in Workers : WalletInput(w)
    \/ \E w \in Workers : ItemInput(w)
    \/ \E w \in Workers : AmountInput(w)
    \/ \E w \in Workers, deal_id \in DealIds, now \in Times :
          DescriptionInput(w, deal_id, now)
    \/ \E w \in Workers, uid \in Users, deal_id \in DealIds : JoinRead(w, uid, deal_id)
    \/ \E w \in Workers, now \in Times : JoinWrite(w, now)
    \/ \E w \in Workers, uid \in Users, deal_id \in DealIds : PaidRead(w, uid, deal_id)
    \/ \E w \in Workers, now \in Times : PaidWrite(w, now)
    \/ \E w \in Workers, uid \in Users, deal_id \in DealIds : LeaveRead(w, uid, deal_id)
    \/ \E w \in Workers, now \in Times : LeaveWrite(w, now)
    \/ \E w \in Workers, uid \in Users, deal_id \in DealIds : FinishRead(w, uid, deal_id)
    \/ \E w \in Workers, now \in Times : FinishWrite(w, now)
    \/ \E w \in Workers, uid \in Users, deal_id \in DealIds : CancelDealRead(w, uid, deal_id)
    \/ \E w \in Workers, now \in Times : CancelDealWrite(w, now)

Spec == Init /\ [][Next]_vars

\* SpecDialog: the dialog alone, one message handler at a time beside the
\* callbacks, with texts that are a valid amount, an amount with a comma,
\* an amount that is not positive and a float that is not a number, and
\* with a message that has no text and one forwarded from a channel.
DialogMessages ==
    {TextMsg(Five), TextMsg(<<"9", ",", "5">>), TextMsg(<<"0">>),
     TextMsg(<<"n", "a", "n">>), PhotoMsg, ForwardMsg(<<>>, <<"7">>)}

NextDialog ==
    \/ \E uid \in Sellers : Cancel(uid)
    \/ \E uid \in Sellers : Wallet(uid)
    \/ \E uid \in Sellers : CreateDealEntry(uid)
    \/ \E uid \in Sellers, cat \in Categories : Category(uid, cat)
    \/ \E uid \in Sellers, msg \in DialogMessages : MessageRead(1, uid, msg)
    \/ WalletInput(1)
    \/ ItemInput(1)
    \/ AmountInput(1)
    \/ \E deal_id \in DealIds, now \in Times : DescriptionInput(1, deal_id, now)

SpecDialog == Init /\ [][NextDialog]_vars

\* SpecSessions: the dialogs of two actors side by side.
NextSessions ==
    \/ \E uid \in Actors : Cancel(uid)
    \/ \E uid \in Actors : Wallet(uid)
    \/ \E uid \in Actors : CreateDealEntry(uid)
    \/ \E uid \in Actors, cat \in Categories : Category(uid, cat)
    \/ \E w \in Workers, uid \in Actors, msg \in Messages : MessageRead(w, uid, msg)
    \/ \E w \in Workers : WalletInput(w)
    \/ \E w \in Workers : ItemInput(w)
    \/ \E w \in Workers : AmountInput(w)
    \/ \E w \in Workers, deal_id \in DealIds, now \in Times :
          DescriptionInput(w, deal_id, now)

SpecSessions == Init /\ [][NextSessions]_vars

\* SpecStore: create_deal called on the store with arguments of every
\* kind: amounts that are positive, zero, infinite and not a number, and
\* texts that are empty or not.
StoreAmounts == {Num(FALSE, 95, 1), Zero, Inf(FALSE), NaN}
StoreTexts == {<<>>, Five}

\* create_deal(seller_id, amount, category, item_info, description), its
\* hash giving deal_id; an IntegrityError leaves the table as it is.
CreateDealCall(deal_id, seller_id, amount, category, item_info, description, now) ==
    /\ deals' = create_deal(deals, deal_id, seller_id, amount, category, item_info,
                            description, now)
    /\ UNCHANGED <<users, states, heap, workers, sent>>

NextStore ==
    \E deal_id \in StoreIds, seller_id \in Actors, amount \in StoreAmounts,
       category \in {Nft, <<>>}, item_info \in StoreTexts, description \in StoreTexts,
       now \in Times :
        CreateDealCall(deal_id, seller_id, amount, category, item_info, description, now)

SpecStore == Init /\ [][NextStore]_vars

\* SpecDeals: the deal transitions alone, on deals that create_deal has
\* stored, with the clock moving between the handlers' store calls.
NextDeals ==
    \/ \E deal_id \in DealIds, seller_id \in Sellers, now \in DealTimes :
          CreateDealCall(deal_id, seller_id, Num(FALSE, 95, 1), Nft, Five, <<>>, now)
    \/ \E w \in Workers, uid \in Users, deal_id \in DealIds : JoinRead(w, uid, deal_id)
    \/ \E w \in Workers, now \in DealTimes : JoinWrite(w, now)
    \/ \E w \in Workers, uid \in Users, deal_id \in DealIds : PaidRead(w, uid, deal_id)
    \/ \E w \in Workers, now \in DealTimes : PaidWrite(w, now)
    \/ \E w \in Workers, uid \in Users, deal_id \in DealIds : LeaveRead(w, uid, deal_id)
    \/ \E w \in Workers, now \in DealTimes : LeaveWrite(w, now)
    \/ \E w \in Workers, uid \in Users, deal_id \in DealIds : FinishRead(w, uid, deal_id)
    \/ \E w \in Workers, now \in DealTimes : FinishWrite(w, now)
    \/ \E w \in Workers, uid \in Users, deal_id \in DealIds : CancelDealRead(w, uid, deal_id)
    \/ \E w \in Workers, now \in DealTimes : CancelDealWrite(w, now)

SpecDeals == Init /\ [][NextDeals]_vars

\* SpecTwice: the dialog of one actor, with more than one value for the
\* deal_id that create_deal computes.
NextTwice ==
    \/ \E uid \in Sellers : Cancel(uid)
    \/ \E uid \in Sellers : Wallet(uid)
    \/ \E uid \in Sellers : CreateDealEntry(uid)
    \/ \E uid \in Sellers, cat \in Categories : Category(uid, cat)
    \/ \E w \in Workers, uid \in Sellers, msg \in Messages : MessageRead(w, uid, msg)
    \/ \E w \in Workers : WalletInput(w)
    \/ \E w \in Workers : ItemInput(w)
    \/ \E w \in Workers : AmountInput(w)
    \/ \E w \in Workers, deal_id \in StoreIds, now \in Times :
          DescriptionInput(w, deal_id, now)

SpecTwice == Init /\ [][NextTwice]_vars

(* --------------------------- _sql_lock --------------------------------- *)
\* The utilities that run their statements inside `with _sql_lock:`.
StoreCalls ==
    {"ensure_user_row", "set_user_wallet", "set_user_channel", "get_user",
     "create_deal", "get_deal", "update_deal", "list_deals_by_user",
     "list_open_deals", "backup_db", "export_deals_csv"}

\* NestedCalls with backup_db reading a deal inside its `with` block.
NestedCallsBackup(call) == IF call = "backup_db" THEN {"get_deal"} ELSE {}

\* The utilities a utility calls inside its `with _sql_lock:` block: none;
\* the blocks call _get_conn and the sqlite3 API only.
NestedCalls(call) == {}

\* Worker w is in a utility and has not got the lock yet.
Waiting(w) == workers[w].op = "store" /\ workers[w].pc = "wait"

\* Worker w is inside the `with` block of a utility: it owns _sql_lock.
Holding(w) == workers[w].op = "store" /\ workers[w].pc # "wait"

\* A thread calls a utility and comes to its `with _sql_lock:`.
StoreCall(w, call) ==
    /\ workers[w] = Idle
    /\ workers' = [workers EXCEPT ![w] =
            [op |-> "store", call |-> call, pc |-> "wait", failed |-> FALSE]]
    /\ UNCHANGED <<users, deals, states, heap, sent>>

\* _sql_lock.__enter__: threading.Lock is not reentrant, the owner itself
\* would wait here as any other thread does.
Acquire(w) ==
    /\ Waiting(w)
    /\ \A v \in Workers : ~Holding(v)
    /\ workers' = [workers EXCEPT ![w].pc = "locked"]
    /\ UNCHANGED <<users, deals, states, heap, sent>>

\* The statements of the block: they end, or one of them raises (failed);
\* a utility called inside the block would have to take the lock first.
Body(w, failed) ==
    /\ workers[w].op = "store" /\ workers[w].pc = "locked"
    /\ NestedCalls(workers[w].call) = {}
    /\ workers' = [workers EXCEPT ![w].pc = "exit", ![w].failed = failed]
    /\ UNCHANGED <<users, deals, states, heap, sent>>

\* _sql_lock.__exit__, on return and on an exception alike.
Release(w) ==
    /\ workers[w].op = "store" /\ workers[w].pc = "exit"
    /\ workers' = [workers EXCEPT ![w] = Idle]
    /\ UNCHANGED <<users, deals, states, heap, sent>>

\* SpecLock: the threads in the utilities.  A thread in a block goes on
\* (weak fairness), and a thread that waits for the lock gets it if the
\* lock is free again and again (strong fairness).
NextLock ==
    \/ \E w \in Workers, call \in StoreCalls : StoreCall(w, call)
    \/ \E w \in Workers : Acquire(w)
    \/ \E w \in Workers, failed \in BOOLEAN : Body(w, failed)
    \/ \E w \in Workers : Release(w)

SpecLock ==
    /\ Init
    /\ [][NextLock]_vars
    /\ \A w \in Workers :
          /\ SF_vars(Acquire(w))
          /\ WF_vars(\E failed \in BOOLEAN : Body(w, failed))
          /\ WF_vars(Release(w))

(* ------------------------------- claims -------------------------------- *)
Closed == {"finished", "canceled"}

\* The handler of worker w has just ended with its update_deal.
Wrote(w, op) == workers[w].op = op /\ workers'[w] = Idle

\* C1: once a deal's status is finished or canceled, no step changes its
\* status or its buyer_id.
C1_TerminalAbsorbing ==
    [][\A d \in DOMAIN deals :
          deals[d].status \in Closed =>
              /\ deals'[d].status = deals[d].status
              /\ deals'[d].buyer_id = deals[d].buyer_id]_vars

\* C2: of two joins on the same deal only one succeeds: a join never
\* writes buyer_id over the buyer_id another actor's join has written.
C2_JoinNeverOverwrites ==
    [][\A w \in Workers :
          Wrote(w, "join") => deals[workers[w].deal_id].buyer_id = None]_vars

\* The deal rows that handlers run one at a time, each from its get_deal to
\* its update_deal, can make of a row, the clock standing still.
Serial(row, op, uid) ==
    LET tbl == (row.deal_id :> row)
    IN  CASE op = "join" ->
                IF JoinCheck(row, uid) = "ok"
                THEN update_deal(tbl, row.deal_id, JoinFields(uid), row.updated_at)[row.deal_id] ELSE row
          [] op = "paid" ->
                IF PaidCheck(row, uid) = "ok"
                THEN update_deal(tbl, row.deal_id, PaidFields, row.updated_at)[row.deal_id] ELSE row
          [] op = "leave" ->
                IF LeaveCheck(row, uid) = "ok"
                THEN update_deal(tbl, row.deal_id, LeaveFields, row.updated_at)[row.deal_id] ELSE row
          [] op = "finish" ->
                IF FinishCheck(row, uid) = "ok"
                THEN update_deal(tbl, row.deal_id, FinishFields, row.updated_at)[row.deal_id] ELSE row
          [] op = "canceldeal" ->
                IF CancelCheck(row, uid) = "ok"
                THEN update_deal(tbl, row.deal_id, CancelFields, row.updated_at)[row.deal_id] ELSE row

Ops == {"join", "paid", "leave", "finish", "canceldeal"}

RECURSIVE SerialRows(_)
SerialRows(rows) ==
    LET more == rows \cup {Serial(row, op, uid) : row \in rows, op \in Ops, uid \in Users}
    IN  IF more = rows THEN rows ELSE SerialRows(more)

AsCreated(row) == [row EXCEPT !.buyer_id = None, !.status = "created"]

\* C3: every deal row reachable when the handlers' reads and writes
\* interleave is a row the handlers make when run one at a time.
C3_Serializable ==
    \A d \in DOMAIN deals : deals[d] \in SerialRows({AsCreated(deals[d])})

\* C4: the status of a deal becomes finished only in a step taken while its
\* stored status is paid, and a finish read of a deal whose status is not
\* paid does not go on to update_deal.
C4_FinishOnlyFromPaid ==
    [][/\ \A d \in DOMAIN deals :
            (deals'[d].status = "finished" /\ deals[d].status # "finished")
                => deals[d].status = "paid"
       /\ \A w \in Workers :
            (workers'[w].op = "finish" /\ workers[w].op # "finish")
                => deals[workers'[w].deal_id].status = "paid"]_vars

\* The replies of the branches of the deal handlers that return before
\* update_deal.
Rejections ==
    {"deal_not_found", "you_are_seller", "deal_taken", "only_buyer_pays",
     "cannot_pay_now", "not_buyer", "already_closed", "only_seller_finishes",
     "finish_after_paid", "not_participant", "already_finished_or_canceled"}

\* Worker w runs the first part of a deal handler for uid on deal_id.
AnyRead(w, uid, deal_id) ==
    \/ JoinRead(w, uid, deal_id)
    \/ PaidRead(w, uid, deal_id)
    \/ LeaveRead(w, uid, deal_id)
    \/ FinishRead(w, uid, deal_id)
    \/ CancelDealRead(w, uid, deal_id)

\* C5: a step that rejects a transition request changes no deal row and
\* sends one message only, the rejection, to the requesting actor; a join
\* on a deal whose buyer_id is set is rejected in this way.
C5_RejectionChangesNothing ==
    [][/\ \A m \in sent' :
            m.text \in Rejections
                => deals' = deals /\ workers' = workers /\ sent' = {m}
       /\ \A w \in Workers, uid \in Users, d \in DealIds :
            (AnyRead(w, uid, d) /\ workers' = workers)
                => /\ deals' = deals
                   /\ \E r \in Rejections : sent' = {Msg(uid, r)}
       /\ \A w \in Workers, uid \in Users, d \in DOMAIN deals :
            (JoinRead(w, uid, d) /\ deals[d].buyer_id # None)
                => /\ deals' = deals /\ workers' = workers
                   /\ \E r \in Rejections : sent' = {Msg(uid, r)}]_vars

\* A third actor's join on a deal that has a buyer has just been rejected.
C5_Witness ==
    \E d \in DOMAIN deals, uid \in Users :
        /\ deals[d].buyer_id \notin {None, uid}
        /\ deals[d].seller_id # uid
        /\ sent = {Msg(uid, "deal_taken")}

\* C6: a join by the deal's seller is rejected with the seller reply
\* whatever the row holds, no join is written for the seller, and no row
\* has buyer_id equal to seller_id.
C6_SellerNeverJoins ==
    [][/\ \A d \in DOMAIN deals' : deals'[d].buyer_id # deals'[d].seller_id
       /\ \A w \in Workers, d \in DOMAIN deals :
            JoinRead(w, deals[d].seller_id, d)
                => /\ sent' = {Msg(deals[d].seller_id, "you_are_seller")}
                   /\ deals' = deals /\ workers' = workers
       /\ \A w \in Workers :
            Wrote(w, "join") => workers[w].uid # deals[workers[w].deal_id].seller_id]_vars

\* The seller's join on a deal that has a buyer has just been rejected.
C6_Witness ==
    \E d \in DOMAIN deals :
        /\ deals[d].buyer_id # None
        /\ sent = {Msg(deals[d].seller_id, "you_are_seller")}

\* C7: a row with status created has no buyer_id and a row with status
\* waiting_payment has one; buyer_id goes from set to unset only in the
\* update of a leave, which writes status created with it.
C7_BuyerMatchesStatus ==
    [][/\ \A d \in DOMAIN deals' :
            /\ deals'[d].status = "created" => deals'[d].buyer_id = None
            /\ deals'[d].status = "waiting_payment" => deals'[d].buyer_id # None
       /\ \A d \in DOMAIN deals :
            (deals[d].buyer_id # None /\ deals'[d].buyer_id = None)
                => /\ \E w \in Workers : Wrote(w, "leave") /\ workers[w].deal_id = d
                   /\ deals'[d].status = "created"]_vars

\* A leave has just cleared buyer_id while another handler, which read the
\* row before, has its update still to do.
C7_Witness ==
    \E d \in DOMAIN deals, w \in Workers :
        /\ deals[d].status = "created" /\ deals[d].buyer_id = None
        /\ \E m \in sent : m.text = "you_left"
        /\ workers[w].op \in Ops /\ workers[w].row.buyer_id # None

\* C8: an update is written only for an actor who holds the role when it
\* is written: paid and leave for the row's buyer_id, finish for its
\* seller_id, canceldeal for its seller_id or buyer_id.
C8_RoleHeldWhenWritten ==
    [][\A w \in Workers :
          /\ (Wrote(w, "paid") \/ Wrote(w, "leave"))
                => deals[workers[w].deal_id].buyer_id = workers[w].uid
          /\ Wrote(w, "finish") => deals[workers[w].deal_id].seller_id = workers[w].uid
          /\ Wrote(w, "canceldeal")
                => workers[w].uid \in {deals[workers[w].deal_id].seller_id,
                                       deals[workers[w].deal_id].buyer_id}]_vars

\* C9: the seller of every deal row has a wallet.
C9_SellerHasWallet == \A d \in DOMAIN deals : HasWallet(get_user(deals[d].seller_id))

\* The payload dicts of the sessions and of the running message handlers
\* that are at step enter_description.
AtDescription ==
    {heap[states[u].ref] : u \in {x \in Users : states[x].step = "enter_description"}}
    \cup
    {heap[workers[w].ref] :
        w \in {x \in Workers : workers[x].op = "message"
                                /\ workers[x].step = "enter_description"}}

\* C10: every deal row has amount > 0, and every payload at step
\* enter_description holds an amount that passed the check amount <= 0, so
\* that the fallback 0.0 is not taken.
C10_AmountPositive ==
    /\ \A d \in DOMAIN deals : GtZero(deals[d].amount)
    /\ \A payload \in AtDescription :
          /\ "amount" \in DOMAIN payload
          /\ ~LeqZero(payload["amount"])
          /\ GetAmount(payload) = payload["amount"]

\* A deal has just been created with the amount 9.5, entered as "9,5".
C10_Witness ==
    /\ \E d \in DOMAIN deals : deals[d].amount = Num(FALSE, 95, 1)
    /\ \E m \in sent : m.text = "deal_created"

Statuses == {"created", "waiting_payment", "paid", "finished", "canceled"}

\* C11: the status of every deal row is one of created, waiting_payment,
\* paid, finished, canceled.
C11_StatusInFiveStates == \A d \in DOMAIN deals : deals[d].status \in Statuses

\* A deal has been created, joined, marked paid and finished: the finish
\* has just been written.
C11_Witness ==
    \E d \in DOMAIN deals :
        /\ deals[d].status = "finished"
        /\ Msg(deals[d].seller_id, "deal_finished") \in sent

\* The step a session is at only after the step before it.
Before(step) ==
    CASE step = "enter_item" -> "choose_category"
      [] step = "enter_amount" -> "enter_item"
      [] step = "enter_description" -> "enter_amount"

\* C12: a session comes to enter_item only from choose_category, to
\* enter_amount only from enter_item and to enter_description only from
\* enter_amount, and a deal row is inserted only for an actor whose session
\* is at enter_description.
C12_StepsInOrder ==
    [][/\ \A u \in Users :
            (/\ states'[u].step \in {"enter_item", "enter_amount", "enter_description"}
             /\ states'[u].step # states[u].step)
                => states[u].step = Before(states'[u].step)
       /\ \A d \in (DOMAIN deals') \ (DOMAIN deals) :
            states[deals'[d].seller_id].step = "enter_description"]_vars

\* Worker w has accepted the request op of uid on deal d: it holds the row
\* and goes on to update_deal.
Accepted(w, op, uid, d) ==
    /\ workers'[w].op = op /\ workers'[w].uid = uid /\ workers'[w].deal_id = d
    /\ deals' = deals

\* The request of uid has been rejected with the reply text.
Rejected(uid, text) ==
    /\ sent' = {Msg(uid, text)}
    /\ deals' = deals /\ workers' = workers

\* The row of deal d after join by b, paid by b and finish by the seller,
\* the handlers run one after the other from the row as it was created.
HappyPath(d, b) ==
    LET r0 == AsCreated(deals[d])
        r1 == Serial(r0, "join", b)
        r2 == Serial(r1, "paid", b)
        r3 == Serial(r2, "finish", r0.seller_id)
    IN  <<r0, r1, r2, r3>>

\* C13: on a created deal a join by an actor other than the seller is
\* accepted and gives waiting_payment with that actor as buyer_id; the
\* buyer's paid is then accepted and gives paid; the seller's finish is
\* then accepted and gives finished; a canceldeal by the seller or the
\* buyer on the finished deal is rejected and the row stays as it is.
C13_HappyPath ==
    [][/\ \A d \in DOMAIN deals : \A b \in Users \ {deals[d].seller_id} :
            LET p == HappyPath(d, b)
            IN  /\ p[2] = [p[1] EXCEPT !.buyer_id = b, !.status = "waiting_payment"]
                /\ p[3] = [p[2] EXCEPT !.status = "paid"]
                /\ p[4] = [p[3] EXCEPT !.status = "finished"]
                /\ \A x \in {b, p[1].seller_id} : Serial(p[4], "canceldeal", x) = p[4]
       /\ \A w \in Workers, uid \in Users, d \in DOMAIN deals :
            /\ (/\ JoinRead(w, uid, d)
                /\ deals[d].status = "created" /\ deals[d].buyer_id = None
                /\ uid # deals[d].seller_id)
                    => Accepted(w, "join", uid, d)
            /\ (/\ PaidRead(w, uid, d)
                /\ deals[d].status = "waiting_payment" /\ deals[d].buyer_id = uid)
                    => Accepted(w, "paid", uid, d)
            /\ (/\ FinishRead(w, uid, d)
                /\ deals[d].status = "paid" /\ deals[d].seller_id = uid)
                    => Accepted(w, "finish", uid, d)
            /\ (/\ CancelDealRead(w, uid, d)
                /\ deals[d].status = "finished"
                /\ uid \in {deals[d].seller_id, deals[d].buyer_id})
                    => Rejected(uid, "already_finished_or_canceled")
       /\ \A w \in Workers :
            LET d == workers[w].deal_id
            IN  /\ Wrote(w, "join")
                    => /\ deals'[d].status = "waiting_payment"
                       /\ deals'[d].buyer_id = workers[w].uid
                /\ Wrote(w, "paid") => deals'[d].status = "paid"
                /\ Wrote(w, "finish") => deals'[d].status = "finished"]_vars

\* The buyer's canceldeal on a finished deal has just been rejected.
C13_Witness ==
    \E d \in DOMAIN deals :
        /\ deals[d].status = "finished"
        /\ deals[d].buyer_id # None
        /\ sent = {Msg(deals[d].buyer_id, "already_finished_or_canceled")}
        /\ \A w \in Workers : workers[w] = Idle

\* C14: the leave of the buyer of a deal with status waiting_payment or
\* paid is accepted and gives status created with no buyer_id, and on that
\* row the join of another actor who is not the seller is accepted and
\* gives waiting_payment with that actor as buyer_id.
C14_LeaveThenJoin ==
    [][/\ \A d \in DOMAIN deals :
            (deals[d].status \in {"waiting_payment", "paid"} /\ deals[d].buyer_id # None)
                => LET left == Serial(deals[d], "leave", deals[d].buyer_id)
                   IN  /\ left = [deals[d] EXCEPT !.buyer_id = None, !.status = "created"]
                       /\ \A c \in Users \ {deals[d].seller_id, deals[d].buyer_id} :
                            Serial(left, "join", c) =
                                [left EXCEPT !.buyer_id = c, !.status = "waiting_payment"]
       /\ \A w \in Workers, uid \in Users, d \in DOMAIN deals :
            (/\ LeaveRead(w, uid, d)
             /\ deals[d].status \in {"waiting_payment", "paid"}
             /\ deals[d].buyer_id = uid)
                => Accepted(w, "leave", uid, d)
       /\ \A w \in Workers :
            Wrote(w, "leave")
                => /\ deals'[workers[w].deal_id].status = "created"
                   /\ deals'[workers[w].deal_id].buyer_id = None
       /\ \A w \in Workers, c \in Users, d \in DOMAIN deals :
            (/\ \E b \in Users \ {c} : Msg(b, "you_left") \in sent
             /\ deals[d].status = "created" /\ deals[d].buyer_id = None
             /\ c # deals[d].seller_id
             /\ JoinRead(w, c, d))
                => Accepted(w, "join", c, d)]_vars

\* The buyer's leave has just been written, no other handler is running,
\* and there is a second actor, not the seller, who can join.
C14_Witness ==
    \E d \in DOMAIN deals, b \in Users :
        /\ sent = LeaveNotes(deals[d], b)
        /\ deals[d].status = "created" /\ deals[d].buyer_id = None
        /\ \A w \in Workers : workers[w] = Idle
        /\ Users \ {b, deals[d].seller_id} # {}

\* C15: when a canceldeal is written, the seller and the buyer_id the row
\* holds at that moment, other than the canceling actor, are each sent the
\* cancellation message.
C15_CancelNotifiesAll ==
    [][\A w \in Workers :
          Wrote(w, "canceldeal")
              => \A p \in {deals'[workers[w].deal_id].seller_id,
                           deals'[workers[w].deal_id].buyer_id} \ {None, workers[w].uid} :
                    Msg(p, "deal_canceled") \in sent']_vars

\* C16: the cancel callback leaves the actor with no session and leaves the
\* tables users and deals as they are, whatever step the session is at; for
\* an actor with no session it leaves everything as it is.
C16_CancelClearsSession ==
    [][\A uid \in Users :
          Cancel(uid)
              => /\ states'[uid] = NoState
                 /\ deals' = deals /\ users' = users
                 /\ \A u \in Users \ {uid} : states'[u].step = states[u].step
                 /\ states[uid] = NoState
                        => /\ states' = states /\ heap' = heap /\ workers' = workers
                           /\ sent' = {Msg(uid, "cancel_menu")}]_vars

\* The actor has canceled at step enter_description, after a message
\* handler had read that step, and has canceled once more.
C16_Witness ==
    \E uid \in Users, w \in Workers :
        /\ states[uid] = NoState
        /\ sent = {Msg(uid, "cancel_menu")}
        /\ workers[w].op = "message" /\ workers[w].uid = uid
        /\ workers[w].step = "enter_description"

\* The session of an actor: its step and the fields collected in its
\* payload dict.
Session(u) ==
    [step |-> states[u].step,
     payload |-> IF states[u].ref = NoRef THEN EmptyDict ELSE heap[states[u].ref]]

\* The step is a callback or a part of a message handler run for actor a.
HandledFor(a) ==
    \/ Cancel(a)
    \/ Wallet(a)
    \/ CreateDealEntry(a)
    \/ \E cat \in Categories : Category(a, cat)
    \/ \E w \in Workers, msg \in Messages : MessageRead(w, a, msg)
    \/ \E w \in Workers :
          /\ workers[w].op = "message" /\ workers[w].uid = a
          /\ \/ WalletInput(w)
             \/ ItemInput(w)
             \/ AmountInput(w)
             \/ \E deal_id \in DealIds, now \in Times : DescriptionInput(w, deal_id, now)

\* C17: a step handled for actor a leaves the step and the collected
\* fields of every other actor's session as they are.
C17_SessionsIndependent ==
    [][\A a \in Users :
          HandledFor(a) => \A b \in Users \ {a} : Session(b)' = Session(b)]_vars

\* Two actors are in the middle of a dialog, each with fields collected,
\* and a message of one of them is being handled.
C17_Witness ==
    \E a \in Users, b \in Users, w \in Workers :
        /\ a # b
        /\ states[a].step = "enter_description"
        /\ states[b].step = "enter_amount"
        /\ states[a].ref # states[b].ref
        /\ workers[w].op = "message" /\ workers[w].uid = a

\* The text, stripped and with ',' read as '.', is a number greater than 0.
PositiveNumber(text) ==
    LET a == ParseFloat(ReplaceComma(Strip(text)))
    IN  a.kind \in {"num", "inf"} /\ GtZero(a)

C19_CreateGetRoundTrip ==
    [][\A deal_id \in StoreIds, seller_id \in Actors, amount \in StoreAmounts,
          category \in {Nft, <<>>}, item_info \in StoreTexts, description \in StoreTexts,
          now \in Times :
          (/\ CreateDealCall(deal_id, seller_id, amount, category, item_info, description, now)
           /\ ~InsertFails(deals, deal_id, amount))
              => LET row == get_deal(deal_id)'
                 IN  /\ row.found
                     /\ row.deal_id = deal_id
                     /\ row.seller_id = seller_id
                     /\ row.amount = amount
                     /\ row.category = category
                     /\ row.item_info = item_info
                     /\ row.description = description
                     /\ row.status = "created"
                     /\ row.buyer_id = None]_vars

\* A deal has been created with an infinite amount, an item_info and an
\* empty description, and is read back.
C19_Witness ==
    \E d \in StoreIds :
        /\ get_deal(d).found
        /\ get_deal(d).amount = Inf(FALSE)
        /\ get_deal(d).item_info = Five
        /\ get_deal(d).description = <<>>

\* C20: create_deal returns only an id that was not the key of a row, and
\* a create_deal whose id is the key of a row leaves the table as it is;
\* no create_deal changes or removes a row there is.
C20_IdsUnique ==
    [][\A deal_id \in StoreIds, seller_id \in Actors, amount \in StoreAmounts,
          category \in {Nft, <<>>}, item_info \in StoreTexts, description \in StoreTexts,
          now \in Times :
          CreateDealCall(deal_id, seller_id, amount, category, item_info, description, now)
              => /\ deal_id \in DOMAIN deals => deals' = deals
                 /\ deals' # deals => deal_id \notin DOMAIN deals
                 /\ \A d \in DOMAIN deals : d \in DOMAIN deals' /\ deals'[d] = deals[d]]_vars

\* Every id is the key of a row, of different sellers: each further
\* create_deal collides.
C20_Witness ==
    /\ DOMAIN deals = StoreIds
    /\ \E d, e \in StoreIds : deals[d].seller_id # deals[e].seller_id

\* The columns of a deal row that no transition writes.
FixedColumns ==
    {"found", "deal_id", "seller_id", "amount", "category", "item_info", "description",
     "created_at"}

\* C21: a deal row that is in the table stays in it, and its deal_id,
\* seller_id, amount, category, item_info, description and created_at stay
\* as they are: a step changes only status, buyer_id and updated_at.
C21_RowKeptColumnsFixed ==
    [][\A d \in DOMAIN deals :
          /\ d \in DOMAIN deals'
          /\ DOMAIN deals'[d] = DOMAIN deals[d]
          /\ \A c \in FixedColumns : deals'[d][c] = deals[d][c]]_vars

\* A deal that was joined has been canceled at a clock reading other than
\* the one it was created at.
C21_Witness ==
    \E d \in DOMAIN deals :
        /\ deals[d].status = "canceled"
        /\ deals[d].buyer_id # None
        /\ deals[d].updated_at # deals[d].created_at
        /\ \E m \in sent : m.text = "deal_canceled"

\* C23: a row with status paid or finished has a buyer_id, and the row a
\* paid handler leaves has the buyer_id of the actor whose request it was.
C23_PaidHasItsBuyer ==
    [][/\ \A d \in DOMAIN deals' :
            deals'[d].status \in {"paid", "finished"} => deals'[d].buyer_id # None
       /\ \A w \in Workers :
            Wrote(w, "paid") => deals'[workers[w].deal_id].buyer_id = workers[w].uid]_vars

\* Worker w is a message handler that has read the session of its actor at
\* step enter_description and has its create_deal still to do.
AtCreate(w) == workers[w].op = "message" /\ workers[w].step = "enter_description"

\* C24: the handler that creates the deal of a session adds one row and
\* leaves the actor with no session, and no other handler has read the same
\* session at enter_description, to create a deal from it as well.
C24_OneDealPerSession ==
    [][\A w \in Workers :
          (AtCreate(w) /\ workers'[w] = Idle /\ deals' # deals)
              => /\ Cardinality(DOMAIN deals') = Cardinality(DOMAIN deals) + 1
                 /\ states'[workers[w].uid] = NoState
                 /\ \A v \in Workers \ {w} :
                        ~(AtCreate(v) /\ workers[v].ref = workers[w].ref)]_vars

\* C22: a thread that waits for _sql_lock gets it, a thread that has it
\* gives it back, also when a statement of the block has raised, and no
\* thread that has the lock comes to take it again.
C22_StoreOpsTerminate ==
    /\ [](\A w \in Workers : Holding(w) => NestedCalls(workers[w].call) = {})
    /\ \A w \in Workers : Waiting(w) ~> Holding(w)
    /\ \A w \in Workers : Holding(w) ~> (workers[w] = Idle)
    /\ \A w \in Workers : (Holding(w) /\ workers[w].failed) ~> (workers[w] = Idle)

\* A backup has failed inside its block while another thread waits for the
\* lock.
C22_Witness ==
    \E w \in Workers, v \in Workers :
        /\ Holding(w) /\ workers[w].call = "backup_db" /\ workers[w].failed
        /\ Waiting(v)
====
